---- MODULE Spec2Model ----
(***************************************************************************)
(* membuffer: MemBufferWriter / MemBufferReader (src/src/lib.rs).          *)
(*                                                                         *)
(* Bytes are integers 0..255, a byte slice is a sequence of bytes together *)
(* with its address modulo 8.  Header integers are native endian; the      *)
(* model fixes a little-endian, 64-bit target (usize is 8 bytes).  usize   *)
(* arithmetic is done on 8 little-endian byte limbs so that sign extension *)
(* and overflow of the header-size computation are kept.                   *)
(***************************************************************************)
EXTENDS Integers, Sequences, FiniteSets, TLC

\* ------------------------------------------------------------------ bounds
MaxEntries == 2

\* number of Readers opened over one finalized buffer by concurrent threads
NumReaders == 2

\* --------------------------------------------------------------- type tags
Text == 0
Integer32 == 1
VectorU8 == 2
VectorU32 == 3
VectorU64 == 4
MemBuffer == 5
LastPreDefienedValue == 6
U64Type == 1021

\* size_of::<InternPosition>() and the two leading integers
HeaderEntrySize == 12
LeadingSize == 8
ChecksumMagic == 2063518462   \* 0x7AFECAFE

\* ------------------------------------------------------------ byte helpers
RECURSIVE NatToBytes(_, _)
NatToBytes(v, n) ==
  IF n = 0 THEN <<>> ELSE <<v % 256>> \o NatToBytes(v \div 256, n - 1)

RECURSIVE BytesToNat(_)
BytesToNat(b) ==
  IF b = <<>> THEN 0 ELSE b[1] + 256 * BytesToNat(Tail(b))

\* i32 -> 4 bytes, two's complement, little endian
I32ToBytes(v) ==
  LET u == IF v < 0 THEN (v + 2147483647) + 1 ELSE v
      lo == NatToBytes(u, 4)
  IN  IF v < 0 THEN <<lo[1], lo[2], lo[3], lo[4] + 128>> ELSE lo

\* first 4 bytes -> i32
I32FromBytes(b) ==
  b[1] + 256 * b[2] + 65536 * b[3]
       + 16777216 * (IF b[4] >= 128 THEN b[4] - 256 ELSE b[4])

\* Wrapping<i32> subtraction
WrappingSubI32(a, b) ==
  IF b > 0 /\ a < (-2147483647 - 1) + b
    THEN ((a + 2147483647) + 1) + ((2147483647 - b) + 1)
    ELSE IF b < 0 /\ a > 2147483647 + b
      THEN ((a - 2147483647) - 1) - ((2147483647 + b) + 1)
      ELSE a - b

\* `x as usize` for an i32 given as its 4 bytes: sign extension to 8 limbs
I32AsUsize(b4) ==
  b4 \o [i \in 1..4 |-> IF b4[4] >= 128 THEN 255 ELSE 0]

\* limbs * m + c; the last element of the result is the carry out
RECURSIVE MulAdd(_, _, _)
MulAdd(x, m, c) ==
  IF x = <<>> THEN <<c>>
  ELSE LET t == x[1] * m + c
       IN  <<t % 256>> \o MulAdd(Tail(x), m, t \div 256)

\* limbs + limbs + carry, the last element of the result is the carry out
RECURSIVE AddLimbs(_, _, _)
AddLimbs(x, y, c) ==
  IF x = <<>> THEN <<c>>
  ELSE LET t == x[1] + y[1] + c
       IN  <<t % 256>> \o AddLimbs(Tail(x), Tail(y), t \div 256)

\* Wrapping<usize> addition
WrappingAddUsize(x, y) == SubSeq(AddLimbs(x, y, 0), 1, 8)

\* unsigned comparison of two limb sequences of equal length
RECURSIVE LimbsLess(_, _)
LimbsLess(a, b) ==
  IF a = <<>> THEN FALSE
  ELSE LET k == Len(a)
       IN  IF a[k] # b[k] THEN a[k] < b[k]
           ELSE LimbsLess(SubSeq(a, 1, k - 1), SubSeq(b, 1, k - 1))

RECURSIVE Concat(_)
Concat(ss) == IF ss = <<>> THEN <<>> ELSE Head(ss) \o Concat(Tail(ss))

RECURSIVE SumLen(_)
SumLen(ss) == IF ss = <<>> THEN 0 ELSE Len(Head(ss)) + SumLen(Tail(ss))

\* ------------------------------------------------------------------- state
VARIABLES
  debug_assertions,  \* build profile: overflow checks and unsafe-precondition checks on
  writer,            \* MemBufferWriter { types, data }
  vals,              \* ghost: the value the caller stored at each index (add_entry/set_entry)
  base,              \* ghost: the bytes this writer was rebuilt from, and the number of
                     \* add_entry calls since, while that is all that happened to it
  out,               \* Vec<u8> returned by the last finalize
  out0,              \* ghost: Vec<u8> returned by the finalize just before it
  buf,               \* the slice handed to MemBufferReader::new / MemBufferWriter::from
  reader,            \* what MemBufferReader::new returned for buf
  result             \* what the last load / from call returned; for set_entry,
                     \* which returns nothing, the type and index it was called with
VARIABLE
  fan                \* fan-out: the Reader each thread holds over the shared buffer
                     \* `out`, and the thread that made the last call

vars == <<debug_assertions, writer, vals, base, out, out0, buf, reader, result, fan>>

\* ------------------------------------------------------- serialization trait
\* Rust types implementing MemBufferSerialize
SerTypes == {"str", "String", "i32", "u64", "u8s", "u64s", "u32s", "Writer"}

\* Rust types implementing MemBufferDeserialize
DeTypes == {"str", "i32", "u64", "u8s", "u64s", "u32s", "Reader"}

\* types load_entry accepts: MemBufferDeserialize + MemBufferSerialize
LoadTypes == DeTypes \cap SerTypes

get_mem_buffer_type(t) ==
  CASE t = "str" -> Text
    [] t = "String" -> Text
    [] t = "i32" -> Integer32
    [] t = "u64" -> U64Type
    [] t = "u8s" -> VectorU8
    [] t = "u64s" -> VectorU64
    [] t = "u32s" -> VectorU32
    [] t = "Writer" -> MemBuffer

EmptyWriter == [types |-> <<>>, data |-> <<>>]

\* a finalize that writes each entry's length where its end offset belongs
finalize_end_as_length(w) ==
  LET n == Len(w.types)
      offset(i) == SumLen(SubSeq(w.data, 1, i - 1))
      entry(i) == I32ToBytes(offset(i))
                  \o I32ToBytes(Len(w.data[i]))
                  \o I32ToBytes(w.types[i])
  IN  I32ToBytes(n)
      \o I32ToBytes(WrappingSubI32(n, ChecksumMagic))
      \o Concat([i \in 1..n |-> entry(i)])
      \o Concat(w.data)

\* Finalize the schema and return the bytes holding the whole vector
finalize(w) ==
  LET n == Len(w.types)
      offset(i) == SumLen(SubSeq(w.data, 1, i - 1))
      entry(i) == I32ToBytes(offset(i))
                  \o I32ToBytes(Len(w.data[i]) + offset(i))
                  \o I32ToBytes(w.types[i])
  IN  I32ToBytes(n)
      \o I32ToBytes(WrappingSubI32(n, ChecksumMagic))
      \o Concat([i \in 1..n |-> entry(i)])
      \o Concat(w.data)

\* a value is [t: Rust type, v: its content as a sequence, w: the writer when t = "Writer"]
to_mem_buffer(val) ==
  CASE val.t \in {"str", "String", "u8s"} -> val.v
    [] val.t = "i32" -> I32ToBytes(val.v[1])
    [] val.t = "u64" -> NatToBytes(val.v[1], 8)
    [] val.t = "u64s" -> Concat([i \in 1..Len(val.v) |-> NatToBytes(val.v[i], 8)])
    [] val.t = "u32s" -> Concat([i \in 1..Len(val.v) |-> NatToBytes(val.v[i], 4)])
    [] val.t = "Writer" -> finalize(val.w)

\* ------------------------------------------------------------------ reader
NoReader == [kind |-> "none", offsets |-> <<>>, data |-> <<>>, addr |-> 0]
ReaderErr(k) == [kind |-> k, offsets |-> <<>>, data |-> <<>>, addr |-> 0]

Res(k, a, b, v, r) == [kind |-> k, a |-> a, b |-> b, val |-> v, rd |-> r]
Ok(v) == Res("Ok", 0, 0, v, NoReader)
FieldTypeError(a, b) == Res("FieldTypeError", a, b, <<>>, NoReader)
WrongFormat == Res("WrongFormat", 0, 0, <<>>, NoReader)
Panic == Res("Panic", 0, 0, <<>>, NoReader)

\* the header entry at index i (1-based) of val, read in place as InternPosition
InternPosition(val, i) ==
  LET o == LeadingSize + HeaderEntrySize * (i - 1)
  IN  [pos |-> [start |-> I32FromBytes(SubSeq(val, o + 1, o + 4)),
                end |-> I32FromBytes(SubSeq(val, o + 5, o + 8))],
       variable_type |-> I32FromBytes(SubSeq(val, o + 9, o + 12))]

\* MemBufferReader::new without the `val.len() < start` test: the payload
\* slice &val[start..] is then taken past the end of a short input
ReaderNewNoStartCheck(val, addr) ==
  IF Len(val) < 8 THEN ReaderErr("WrongFormat")
  ELSE
    LET vec_len == I32AsUsize(SubSeq(val, 1, 4))
        checksum == I32AsUsize(SubSeq(val, 5, 8))
        prod == MulAdd(vec_len, HeaderEntrySize, 0)
        sum == MulAdd(SubSeq(prod, 1, 8), 1, LeadingSize)
        start == SubSeq(sum, 1, 8)
    IN  IF debug_assertions /\ (prod[9] # 0 \/ sum[9] # 0)
          THEN ReaderErr("Panic")
        ELSE IF WrappingAddUsize(checksum, NatToBytes(ChecksumMagic, 8)) # vec_len
          THEN ReaderErr("WrongFormat")
        ELSE IF \/ LimbsLess(NatToBytes(Len(val), 8), start)
                \/ debug_assertions /\ (addr + 8) % 4 # 0
          THEN ReaderErr("Panic")
        ELSE
          LET n == BytesToNat(SubSeq(vec_len, 1, 3))
              st == BytesToNat(SubSeq(start, 1, 3))
          IN  [kind |-> "Ok",
               offsets |-> [i \in 1..n |-> InternPosition(val, i)],
               data |-> SubSeq(val, st + 1, Len(val)),
               addr |-> (addr + st) % 8]

\* MemBufferReader::new on the slice val located at address addr (mod 8)
ReaderNew(val, addr) ==
  IF Len(val) < 8 THEN ReaderErr("WrongFormat")
  ELSE
    LET vec_len == I32AsUsize(SubSeq(val, 1, 4))
        checksum == I32AsUsize(SubSeq(val, 5, 8))
        prod == MulAdd(vec_len, HeaderEntrySize, 0)
        sum == MulAdd(SubSeq(prod, 1, 8), 1, LeadingSize)
        start == SubSeq(sum, 1, 8)
    IN  IF debug_assertions /\ (prod[9] # 0 \/ sum[9] # 0)
          THEN ReaderErr("Panic")
        ELSE IF \/ LimbsLess(NatToBytes(Len(val), 8), start)
                \/ WrappingAddUsize(checksum, NatToBytes(ChecksumMagic, 8)) # vec_len
          THEN ReaderErr("WrongFormat")
        ELSE IF debug_assertions /\ (addr + 8) % 4 # 0
          THEN ReaderErr("Panic")
        ELSE
          LET n == BytesToNat(SubSeq(vec_len, 1, 3))
              st == BytesToNat(SubSeq(start, 1, 3))
          IN  [kind |-> "Ok",
               offsets |-> [i \in 1..n |-> InternPosition(val, i)],
               data |-> SubSeq(val, st + 1, Len(val)),
               addr |-> (addr + st) % 8]

\* X::from_mem_buffer on the slice mem located at address addr (mod 8)
from_mem_buffer(X, mem, addr) ==
  CASE X \in {"str", "u8s"} -> Ok(mem)
    [] X = "i32" ->
         IF Len(mem) < 4 THEN Panic ELSE Ok(<<I32FromBytes(mem)>>)
    [] X = "u64" ->
         IF Len(mem) < 8 THEN Panic ELSE Ok(<<BytesToNat(SubSeq(mem, 1, 8))>>)
    [] X = "u64s" ->
         IF debug_assertions /\ addr % 8 # 0 THEN Panic
         ELSE Ok([i \in 1..(Len(mem) \div 8) |->
                    BytesToNat(SubSeq(mem, 8 * i - 7, 8 * i))])
    [] X = "u32s" ->
         IF debug_assertions /\ addr % 4 # 0 THEN Panic
         ELSE Ok([i \in 1..(Len(mem) \div 4) |->
                    BytesToNat(SubSeq(mem, 4 * i - 3, 4 * i))])
    [] X = "Reader" ->
         LET r == ReaderNew(mem, addr)
         IN  IF r.kind = "Ok" THEN Res("Ok", 0, 0, <<>>, r)
             ELSE Res(r.kind, 0, 0, <<>>, NoReader)

\* intern_load_entry with the two tags of FieldTypeError exchanged
intern_load_entry_swapped(r, X, key, expected_type) ==
  IF key >= Len(r.offsets) THEN Panic
  ELSE
    LET entry == r.offsets[key + 1]
        is_type == entry.variable_type
    IN  IF is_type # expected_type
          THEN FieldTypeError(expected_type, is_type)
        ELSE IF \/ entry.pos.start < 0 \/ entry.pos.end < 0
                \/ entry.pos.start > entry.pos.end
                \/ entry.pos.end > Len(r.data)
          THEN Panic
        ELSE from_mem_buffer(X,
               SubSeq(r.data, entry.pos.start + 1, entry.pos.end),
               (r.addr + entry.pos.start) % 8)

\* MemBufferReader::intern_load_entry; key is 0-based
intern_load_entry(r, X, key, expected_type) ==
  IF key >= Len(r.offsets) THEN Panic
  ELSE
    LET entry == r.offsets[key + 1]
        is_type == entry.variable_type
    IN  IF is_type # expected_type
          THEN FieldTypeError(is_type, expected_type)
        ELSE IF \/ entry.pos.start < 0 \/ entry.pos.end < 0
                \/ entry.pos.start > entry.pos.end
                \/ entry.pos.end > Len(r.data)
          THEN Panic
        ELSE from_mem_buffer(X,
               SubSeq(r.data, entry.pos.start + 1, entry.pos.end),
               (r.addr + entry.pos.start) % 8)

load_entry(r, X, key) == intern_load_entry(r, X, key, get_mem_buffer_type(X))

load_recursive_reader(r, key) ==
  intern_load_entry(r, "Reader", key, get_mem_buffer_type("Writer"))

len(r) == Len(r.offsets)

\* a payload_len that counts the bytes of the header entries as well
payload_len_with_header(r) == Len(r.data) + HeaderEntrySize * Len(r.offsets)

payload_len(r) == Len(r.data)

\* ------------------------------------------------------------------ writer
\* MemBufferWriter::add_entry
add_entry(w, val) ==
  [types |-> Append(w.types, get_mem_buffer_type(val.t)),
   data |-> Append(w.data, to_mem_buffer(val))]

\* MemBufferWriter::set_entry; index is 0-based and in range
set_entry(w, val, index) ==
  [types |-> [w.types EXCEPT ![index + 1] = get_mem_buffer_type(val.t)],
   data |-> [w.data EXCEPT ![index + 1] = to_mem_buffer(val)]]

\* address (mod 8) of the bytes of an owned Vec<u8>: the allocator's
\* alignment for a non-empty vector, NonNull::dangling() for an empty one
VecAddr(bytes) == IF bytes = <<>> THEN 1 ELSE 0

\* MemBufferWriter::load_entry; index is 0-based
writer_load_entry(w, X, index) ==
  IF index >= Len(w.types) THEN Panic
  ELSE IF get_mem_buffer_type(X) # w.types[index + 1]
    THEN FieldTypeError(w.types[index + 1], get_mem_buffer_type(X))
  ELSE from_mem_buffer(X, w.data[index + 1], VecAddr(w.data[index + 1]))

\* a from that slices the payloads out of the whole input instead of
\* reader.data, the bytes behind the header
WriterFromWholeInput(raw_memory, addr) ==
  LET r == ReaderNew(raw_memory, addr)
      bad(x) == \/ x.pos.start < 0 \/ x.pos.end < 0
                \/ x.pos.start > x.pos.end
                \/ x.pos.end > Len(r.data)
  IN  IF r.kind # "Ok" THEN [res |-> r.kind, w |-> EmptyWriter]
      ELSE IF \E i \in 1..Len(r.offsets) : bad(r.offsets[i])
        THEN [res |-> "Panic", w |-> EmptyWriter]
      ELSE [res |-> "Ok",
            w |-> [types |-> [i \in 1..Len(r.offsets) |-> r.offsets[i].variable_type],
                   data |-> [i \in 1..Len(r.offsets) |->
                               SubSeq(raw_memory, r.offsets[i].pos.start + 1,
                                      r.offsets[i].pos.end)]]]

\* MemBufferWriter::from: [res: "Ok" | "WrongFormat" | "Panic", w: the writer]
WriterFrom(raw_memory, addr) ==
  LET r == ReaderNew(raw_memory, addr)
      bad(x) == \/ x.pos.start < 0 \/ x.pos.end < 0
                \/ x.pos.start > x.pos.end
                \/ x.pos.end > Len(r.data)
  IN  IF r.kind # "Ok" THEN [res |-> r.kind, w |-> EmptyWriter]
      ELSE IF \E i \in 1..Len(r.offsets) : bad(r.offsets[i])
        THEN [res |-> "Panic", w |-> EmptyWriter]
      ELSE [res |-> "Ok",
            w |-> [types |-> [i \in 1..Len(r.offsets) |-> r.offsets[i].variable_type],
                   data |-> [i \in 1..Len(r.offsets) |->
                               SubSeq(r.data, r.offsets[i].pos.start + 1,
                                      r.offsets[i].pos.end)]]]

\* a finalize that moves the entries out of the writer
WriterAfterFinalizeDrained(w) == EmptyWriter

\* finalize takes &self: the writer is left as it was
WriterAfterFinalize(w) == w

\* a load that invalidates the reader once a type check failed
ReaderAfterLoadPoisoned(r, X, key) ==
  IF X # "Reader" /\ load_entry(r, X, key).kind = "FieldTypeError"
    THEN [r EXCEPT !.offsets = <<>>] ELSE r

\* the loads take &self: the reader is left as it was
ReaderAfterLoad(r, X, key) == r

\* ------------------------------------------------------------------ inputs
Val(t, v) == [t |-> t, v |-> v, w |-> EmptyWriter]
RawVal == Val("raw", <<>>)

PlainValues ==
  { Val("str", <<72, 105>>),
    Val("i32", <<-2>>),
    Val("u64", <<258>>),
    Val("u8s", <<100, 200, 1>>),
    Val("u32s", <<1, 65536>>),
    Val("u64s", <<513>>) }

NestedWriters == { add_entry(EmptyWriter, Val("str", <<72, 105>>)) }

Values == PlainValues \cup { [t |-> "Writer", v |-> <<>>, w |-> w] : w \in NestedWriters }

\* entry counts written over the first four bytes of a finalized buffer
CorruptCounts == { -2147483647 - 1, -1, 0, 100 }

\* lengths a finalized buffer o with n entries is cut to: inside the two
\* leading integers, inside the header array, inside the payload
TruncLens(o, n) ==
  LET h == LeadingSize + HeaderEntrySize * n
  IN  { 0, 7, 8, h - 1, Len(o) - 1 } \cap (0..(Len(o) - 1))

NoResult == [op |-> "none", X |-> "", key |-> 0, res |-> Res("none", 0, 0, <<>>, NoReader)]
Result(op, X, key, res) == [op |-> op, X |-> X, key |-> key, res |-> res]

NoBase == [b |-> <<>>, adds |-> 0]

NoFan == [rd |-> [t \in 1..NumReaders |-> NoReader], t |-> 0]

\* --------------------------------------------------------------------- Init
Init ==
  /\ debug_assertions \in BOOLEAN
  /\ writer = EmptyWriter
  /\ vals = <<>>
  /\ base = NoBase
  /\ out = <<>>
  /\ out0 = <<>>
  /\ buf = <<>>
  /\ reader = NoReader
  /\ result = NoResult
  /\ fan = NoFan

\* ------------------------------------------------------------------ actions
\* The client of the library works in rounds: it builds a writer (add_entry,
\* set_entry, load_entry on the writer), finalizes it, opens one reader on the
\* returned bytes (as they are, cut short, or with the entry count
\* overwritten), and loads from it or rebuilds a writer from the same bytes.
\* A mutation of the writer starts the next round and drops the buffers of
\* the previous one.  The successor of a mutation depends on
\* <<writer, vals, base>> only and that of Reader::new on out only, so taking
\* them at the start of a round reaches every state the free order reaches.
\* A writer rebuilt from bytes is extended, finalized and read back; the
\* damaged inputs and the loads on the writer itself are taken in the rounds
\* of writers built with add_entry/set_entry (base = NoBase).
AddEntry(val) ==
  /\ out = <<>>
  /\ Len(writer.types) < MaxEntries
  /\ writer' = add_entry(writer, val)
  /\ vals' = Append(vals, val)
  /\ out' = <<>> /\ out0' = <<>> /\ buf' = <<>>
  /\ reader' = NoReader /\ result' = NoResult
  /\ base' = IF base.b # <<>> /\ base.adds = 0
               THEN [base EXCEPT !.adds = 1] ELSE NoBase
  /\ UNCHANGED <<debug_assertions, fan>>

SetEntry(val, index) ==
  /\ out = <<>>
  /\ index < Len(writer.types)
  /\ writer' = set_entry(writer, val, index)
  /\ vals' = [vals EXCEPT ![index + 1] = val]
  /\ base' = NoBase
  /\ out' = <<>> /\ out0' = <<>> /\ buf' = <<>>
  /\ reader' = NoReader
  /\ result' = Result("set", val.t, index, NoResult.res)
  /\ UNCHANGED <<debug_assertions, fan>>

Finalize ==
  /\ out0 = <<>>
  /\ out = <<>> \/ reader.kind = "none"
  /\ out' = finalize(writer)
  /\ out0' = out
  /\ writer' = WriterAfterFinalize(writer)
  /\ buf' = <<>> /\ reader' = NoReader /\ result' = NoResult
  /\ UNCHANGED <<fan, debug_assertions, vals, base>>

\* MemBufferReader::new(&result)
NewReader ==
  /\ out # <<>> /\ reader.kind = "none"
  /\ buf' = out
  /\ reader' = ReaderNew(out, VecAddr(out))
  /\ result' = NoResult
  /\ out0' = <<>>
  /\ UNCHANGED <<fan, debug_assertions, writer, vals, base, out>>

\* MemBufferReader::new(&result[0..k])
NewReaderTruncated(k) ==
  /\ out # <<>> /\ reader.kind = "none" /\ base = NoBase
  /\ k \in TruncLens(out, Len(writer.types))
  /\ buf' = SubSeq(out, 1, k)
  /\ reader' = ReaderNew(SubSeq(out, 1, k), VecAddr(out))
  /\ result' = NoResult
  /\ out0' = <<>>
  /\ UNCHANGED <<fan, debug_assertions, writer, vals, base, out>>

\* MemBufferReader::new(&result) after the entry_count field was overwritten
NewReaderCorruptCount(c) ==
  /\ out # <<>> /\ reader.kind = "none" /\ base = NoBase
  /\ I32ToBytes(c) # SubSeq(out, 1, 4)
  /\ LET b == I32ToBytes(c) \o SubSeq(out, 5, Len(out))
     IN  /\ buf' = b
         /\ reader' = ReaderNew(b, VecAddr(out))
  /\ result' = NoResult
  /\ out0' = <<>>
  /\ UNCHANGED <<fan, debug_assertions, writer, vals, base, out>>

\* MemBufferReader::new(&result) after entry_count was overwritten with a
\* negative count and the checksum field with the checksum finalize would
\* write for that count
NewReaderForgedCount(c) ==
  /\ out # <<>> /\ reader.kind = "none" /\ base = NoBase
  /\ c < 0
  /\ LET b == I32ToBytes(c) \o I32ToBytes(WrappingSubI32(c, ChecksumMagic))
              \o SubSeq(out, 9, Len(out))
     IN  /\ buf' = b
         /\ reader' = ReaderNew(b, VecAddr(out))
  /\ result' = NoResult
  /\ out0' = <<>>
  /\ UNCHANGED <<fan, debug_assertions, writer, vals, base, out>>

LoadEntry(X, key) ==
  /\ reader.kind = "Ok"
  /\ key < len(reader)
  /\ result' = Result("load", X, key, load_entry(reader, X, key))
  /\ reader' = ReaderAfterLoad(reader, X, key)
  /\ UNCHANGED <<fan, debug_assertions, writer, vals, base, out, out0, buf>>

LoadRecursiveReader(key) ==
  /\ reader.kind = "Ok"
  /\ key < len(reader)
  /\ result' = Result("recursive", "Reader", key, load_recursive_reader(reader, key))
  /\ reader' = ReaderAfterLoad(reader, "Reader", key)
  /\ UNCHANGED <<fan, debug_assertions, writer, vals, base, out, out0, buf>>

WriterLoadEntry(X, index) ==
  /\ out = <<>> /\ base = NoBase
  /\ index < Len(writer.types)
  /\ result' = Result("wload", X, index, writer_load_entry(writer, X, index))
  /\ UNCHANGED <<fan, debug_assertions, writer, vals, base, out, out0, buf, reader>>

\* MemBufferWriter::from(buf)
FromBytes ==
  /\ out # <<>>
  /\ reader.kind # "none"
  /\ LET f == WriterFrom(buf, VecAddr(out))
     IN  /\ result' = Result("from", "", 0, Res(f.res, 0, 0, <<>>, NoReader))
         /\ IF f.res = "Ok"
              THEN /\ writer' = f.w
                   /\ vals' = IF buf = out THEN vals
                              ELSE [i \in 1..Len(f.w.types) |-> RawVal]
                   /\ base' = [b |-> buf, adds |-> 0]
                   /\ out' = <<>> /\ out0' = <<>>
                   /\ buf' = <<>> /\ reader' = NoReader
              ELSE UNCHANGED <<writer, vals, base, out, out0, buf, reader>>
  /\ UNCHANGED <<debug_assertions, fan>>

Next ==
  \/ \E val \in Values : AddEntry(val)
  \/ \E val \in Values, index \in 0..(MaxEntries - 1) : SetEntry(val, index)
  \/ Finalize
  \/ NewReader
  \/ \E k \in 0..Len(out) : NewReaderTruncated(k)
  \/ \E c \in CorruptCounts : NewReaderCorruptCount(c)
  \/ \E c \in CorruptCounts : NewReaderForgedCount(c)
  \/ \E X \in LoadTypes, key \in 0..(MaxEntries - 1) : LoadEntry(X, key)
  \/ \E key \in 0..(MaxEntries - 1) : LoadRecursiveReader(key)
  \/ \E X \in LoadTypes, index \in 0..(MaxEntries - 1) : WriterLoadEntry(X, index)
  \/ FromBytes

Spec == Init /\ [][Next]_vars

\* ----------------------------------------------------------------- fan-out
\* One thread builds and finalizes a writer; NumReaders threads then share
\* &out and each opens its own Reader and loads from it, in any interleaving.
\* A failed unsafe-precondition check does not unwind: it aborts the process,
\* so no thread makes a call after one (Aborted).
FanValues == { v \in Values : v.t \in {"str", "u64s", "Writer"} }

Aborted == result.res.kind = "Panic"

\* a read that writes the checksum field of the bytes it was lent
SharedAfterReadScribbled(b) == [b EXCEPT ![5] = 0]

\* Reader::new and the loads take val: &'a [u8] / &self: the bytes are only read
SharedAfterRead(b) == b

FanFinalize == out = <<>> /\ Finalize

FanNewReader(t) ==
  /\ out # <<>> /\ ~Aborted
  /\ fan.rd[t].kind = "none"
  /\ LET r == ReaderNew(out, VecAddr(out))
     IN  /\ fan' = [rd |-> [fan.rd EXCEPT ![t] = r], t |-> t]
         /\ result' = Result("new", "", 0, Res(r.kind, 0, 0, <<>>, NoReader))
  /\ out' = SharedAfterRead(out)
  /\ UNCHANGED <<debug_assertions, writer, vals, base, out0, buf, reader>>

FanLoadEntry(t, X, key) ==
  /\ out # <<>> /\ ~Aborted
  /\ fan.rd[t].kind = "Ok"
  /\ key < len(fan.rd[t])
  /\ result' = Result("load", X, key, load_entry(fan.rd[t], X, key))
  /\ fan' = [rd |-> [fan.rd EXCEPT ![t] = ReaderAfterLoad(fan.rd[t], X, key)],
             t |-> t]
  /\ out' = SharedAfterRead(out)
  /\ UNCHANGED <<debug_assertions, writer, vals, base, out0, buf, reader>>

FanLoadRecursiveReader(t, key) ==
  /\ out # <<>> /\ ~Aborted
  /\ fan.rd[t].kind = "Ok"
  /\ key < len(fan.rd[t])
  /\ result' = Result("recursive", "Reader", key,
                      load_recursive_reader(fan.rd[t], key))
  /\ fan' = [rd |-> [fan.rd EXCEPT ![t] = ReaderAfterLoad(fan.rd[t], "Reader", key)],
             t |-> t]
  /\ out' = SharedAfterRead(out)
  /\ UNCHANGED <<debug_assertions, writer, vals, base, out0, buf, reader>>

FanNext ==
  \/ \E val \in FanValues : AddEntry(val)
  \/ FanFinalize
  \/ \E t \in 1..NumReaders : FanNewReader(t)
  \/ \E t \in 1..NumReaders, X \in LoadTypes, key \in 0..(MaxEntries - 1) :
       FanLoadEntry(t, X, key)
  \/ \E t \in 1..NumReaders, key \in 0..(MaxEntries - 1) :
       FanLoadRecursiveReader(t, key)

FanSpec == Init /\ [][FanNext]_vars

\* ------------------------------------------------------------------ claims
\* the reader was opened on the bytes finalize returned, unchanged
Intact == out # <<>> /\ buf = out /\ reader.kind # "none"

\* the result is that of loading index i as the Rust type the value v has
LoadedAs(i, v) ==
  /\ result.op = "load" /\ result.key = i
  /\ v.t \in LoadTypes /\ result.X = v.t

\* C1: a new Writer with one add_entry(v), finalized: Reader::new succeeds on
\* the buffer and load_entry of v's type at index 0 returns v.
C1_RoundTrip ==
  (Intact /\ base = NoBase /\ Len(vals) = 1)
    => /\ reader.kind = "Ok"
       /\ LoadedAs(0, vals[1]) => result.res = Ok(vals[1].v)

\* C2: after any sequence of add_entry calls, finalize and Reader::new,
\* load_entry(i) with the matching type returns the i-th value added.
C2_OrderPreserved ==
  (Intact /\ base = NoBase)
    => /\ reader.kind = "Ok"
       /\ \A i \in 0..(Len(vals) - 1) :
            LoadedAs(i, vals[i + 1]) => result.res = Ok(vals[i + 1].v)

\* C3: loading an entry stored with tag A as a type with tag B # A returns
\* FieldTypeError(A, B), stored tag first, on the Reader over the finalized
\* buffer and on the Writer, and never a decoded value.
C3_TypeMismatch ==
  LET A == get_mem_buffer_type(vals[result.key + 1].t)
      B == IF result.op = "recursive" THEN MemBuffer
           ELSE get_mem_buffer_type(result.X)
      called == \/ result.op \in {"load", "recursive"} /\ Intact
                \/ result.op = "wload"
  IN  (called /\ result.key < Len(vals) /\ vals[result.key + 1].t \in SerTypes
         /\ A # B)
        => result.res = FieldTypeError(A, B)

C3_Witness ==
  /\ result.op = "load" /\ Intact
  /\ result.res.kind = "FieldTypeError"
  /\ result.res.a = get_mem_buffer_type(vals[result.key + 1].t)
  /\ result.res.a # result.res.b

\* C4: a finalized buffer whose entry_count field was overwritten with a
\* different value, every other byte kept, makes Reader::new return WrongFormat.
C4_CountCorruption ==
  (/\ out # <<>> /\ reader.kind # "none"
   /\ Len(buf) = Len(out)
   /\ SubSeq(buf, 5, Len(buf)) = SubSeq(out, 5, Len(out))
   /\ SubSeq(buf, 1, 4) # SubSeq(out, 1, 4))
    => reader.kind = "WrongFormat"

\* the reader was opened on the first Len(buf) bytes of the finalized buffer
Truncated ==
  /\ out # <<>> /\ reader.kind # "none"
  /\ Len(buf) < Len(out) /\ buf = SubSeq(out, 1, Len(buf))

\* C5: Reader::new returns WrongFormat for every input shorter than 8 bytes and
\* for every finalized buffer cut to less than 8 + 12 * entry_count bytes.
C5_Truncation ==
  (/\ reader.kind # "none"
   /\ \/ Len(buf) < 8
      \/ Truncated /\ Len(buf) < 8 + 12 * Len(writer.types))
    => reader.kind = "WrongFormat"

C5_Witness ==
  /\ Truncated
  /\ Len(buf) >= 8 /\ Len(buf) < 8 + 12 * Len(writer.types)
  /\ reader.kind = "WrongFormat"

\* C6: every Reader that Reader::new returns has all its positions inside the
\* payload, 0 <= start <= end <= payload_len.
C6_PositionsInPayload ==
  reader.kind = "Ok"
    => \A i \in 1..len(reader) :
         /\ 0 <= reader.offsets[i].pos.start
         /\ reader.offsets[i].pos.start <= reader.offsets[i].pos.end
         /\ reader.offsets[i].pos.end <= payload_len(reader)

C8_Extension ==
  (Intact /\ base.b # <<>> /\ base.adds = 1)
    => LET rb == ReaderNew(base.b, 0)
           n == len(rb)
           bytes(r, i) == SubSeq(r.data, r.offsets[i].pos.start + 1,
                                 r.offsets[i].pos.end)
       IN  /\ reader.kind = "Ok"
           /\ len(reader) = n + 1
           /\ \A i \in 1..n :
                /\ reader.offsets[i].variable_type = rb.offsets[i].variable_type
                /\ bytes(reader, i) = bytes(rb, i)
           /\ LoadedAs(n, vals[n + 1]) => result.res = Ok(vals[n + 1].v)

\* C9: load_recursive_reader(k) returns, for a nested Writer W2 added at index
\* k, a Reader with the len and the entries of a Reader over W2.finalize(), and
\* FieldTypeError for an index whose stored tag is not the nested-buffer tag.
C9_Nesting ==
  (Intact /\ result.op = "recursive" /\ result.key < Len(vals))
    => LET v == vals[result.key + 1]
           r2 == ReaderNew(finalize(v.w), 0)
       IN  IF v.t = "Writer"
             THEN /\ result.res.kind = "Ok"
                  /\ len(result.res.rd) = len(r2)
                  /\ \A i \in 0..(len(r2) - 1), X \in LoadTypes :
                       load_entry(result.res.rd, X, i) = load_entry(r2, X, i)
             ELSE result.res.kind = "FieldTypeError"

Returned(r, j) ==
  [X \in LoadTypes \cup {"Reader"} |->
     IF X = "Reader"
       THEN LET q == load_recursive_reader(r, j)
            IN  <<q.kind, q.a, q.b, q.rd.offsets, q.rd.data>>
       ELSE load_entry(r, X, j)]

\* C11: set_entry(value, i) with i < len() replaces the tag and payload bytes
\* at index i with those of value and leaves every other entry and the number
\* of entries as they were; the Reader over the finalized buffer then returns
\* value for load_entry(i) and, for every other index, what the Reader over
\* the buffer finalized before the call returned.
C11_SetEntryFrame ==
  [][ result'.op = "set"
        => LET i == result'.key
               v == vals'[i + 1]
               n == Len(writer.types)
               r0 == ReaderNew(finalize(writer), VecAddr(finalize(writer)))
               r1 == ReaderNew(finalize(writer'), VecAddr(finalize(writer')))
           IN  /\ Len(writer'.types) = n /\ Len(writer'.data) = n
               /\ writer'.types[i + 1] = get_mem_buffer_type(v.t)
               /\ writer'.data[i + 1] = to_mem_buffer(v)
               /\ \A j \in (1..n) \ {i + 1} :
                    /\ writer'.types[j] = writer.types[j]
                    /\ writer'.data[j] = writer.data[j]
               /\ r1.kind = "Ok" /\ len(r1) = n
               /\ v.t \in LoadTypes => load_entry(r1, v.t, i) = Ok(v.v)
               /\ \A j \in (0..(n - 1)) \ {i} : Returned(r1, j) = Returned(r0, j)
    ]_vars

\* C12: the Reader over a Writer's finalized buffer reports len() equal to the
\* Writer's number of entries and payload_len() equal to the sum of the
\* entries' encoded byte lengths; both are 0 for an empty Writer.
C12_LenPayloadLen ==
  Intact
    => /\ reader.kind = "Ok"
       /\ len(reader) = Len(writer.types)
       /\ payload_len(reader) = SumLen(writer.data)
       /\ writer = EmptyWriter => len(reader) = 0 /\ payload_len(reader) = 0

C12_Witness ==
  /\ Intact /\ reader.kind = "Ok"
  /\ len(reader) = 2 /\ len(reader) = Len(writer.types)
  /\ payload_len(reader) = Len(writer.data[1]) + Len(writer.data[2])
  /\ Len(writer.data[1]) # Len(writer.data[2])

\* C13: the tag a Writer stores for a value of a built-in type (text, i32,
\* u64 scalar, byte vector, u32 vector, u64 vector, nested buffer) is the tag
\* of that type and lies strictly below the sentinel LastPreDefienedValue, the
\* first tag a host application allocates for its own types.
C13_BuiltinTagsBelowSentinel ==
  \A i \in 1..Len(vals) :
    vals[i].t \in SerTypes
      => /\ writer.types[i] = get_mem_buffer_type(vals[i].t)
         /\ 0 <= writer.types[i]
         /\ writer.types[i] < LastPreDefienedValue

C15_FinalizeLayout ==
  out # <<>>
    => LET n == Len(writer.types)
           L(i) == Len(writer.data[i])
           h == 8 + 12 * n
           e(i) == [start |-> I32FromBytes(SubSeq(out, 12 * i - 3, 12 * i)),
                    end |-> I32FromBytes(SubSeq(out, 12 * i + 1, 12 * i + 4)),
                    tag |-> I32FromBytes(SubSeq(out, 12 * i + 5, 12 * i + 8))]
       IN  /\ Len(out) = h + SumLen(writer.data)
           /\ I32FromBytes(SubSeq(out, 1, 4)) = n
           /\ I32FromBytes(SubSeq(out, 5, 8)) = n - ChecksumMagic
           /\ \A i \in 1..n :
                /\ e(i).start = SumLen(SubSeq(writer.data, 1, i - 1))
                /\ e(i).end = e(i).start + L(i)
                /\ e(i).tag = writer.types[i]
                /\ SubSeq(out, h + e(i).start + 1, h + e(i).end) = writer.data[i]
                /\ i = 1 => e(i).start = 0
                /\ i < n => e(i).end = e(i + 1).start
                /\ i = n => e(i).end = Len(out) - h

C15_Witness ==
  /\ out # <<>> /\ Len(writer.types) = 2
  /\ writer.types[1] # writer.types[2]
  /\ Len(writer.data[1]) = 3 /\ Len(writer.data[2]) = 8
  /\ Len(out) = 8 + 24 + 11

\* C16: Writer::from(w.finalize()) succeeds and yields a Writer with the type
\* tags and payload bytes of w, so finalizing it gives the same buffer again;
\* and on any input Writer::from returns WrongFormat exactly when Reader::new
\* returns WrongFormat on it.
C16_FromLossless ==
  [][ result'.op = "from"
        => /\ result'.res.kind = "WrongFormat"
                <=> ReaderNew(buf, VecAddr(out)).kind = "WrongFormat"
           /\ buf = finalize(writer)
                => /\ result'.res.kind = "Ok"
                   /\ writer'.types = writer.types
                   /\ writer'.data = writer.data
                   /\ finalize(writer') = buf
    ]_vars

C16_Witness ==
  /\ result.op = "from" /\ result.res.kind = "Ok"
  /\ Len(writer.types) = 2 /\ writer.types[2] = MemBuffer
  /\ base.b = finalize(writer) /\ base.adds = 0

\* C17: Reader::new returns WrongFormat, and neither aborts nor accepts, for
\* every input of at least 8 bytes whose entry_count field is negative as a
\* signed 32-bit integer, whatever the checksum field and the input length.
C17_NegativeCount ==
  (/\ reader.kind # "none"
   /\ Len(buf) >= 8
   /\ I32FromBytes(SubSeq(buf, 1, 4)) < 0)
    => reader.kind = "WrongFormat"

====
